---- MODULE Spec2Model ----
(***************************************************************************)
(* The component backend of bhavi-stream (src/backend/app.py): a Flask     *)
(* application holding a dictionary of component definitions and four      *)
(* request handlers.  A request is received, then served by the handler of *)
(* its route; the state is the dictionary, the request being served (or    *)
(* last served) and its response.                                          *)
(***************************************************************************)
EXTENDS Integers, Sequences, FiniteSets, TLC

VARIABLES
    COMPONENTS,  \* the module-level dictionary of component definitions
    request,     \* the request being served, or the last one served
    response,    \* its response, NoResponse while the handler has not returned
    saved        \* how many POST /api/schematic requests were served (saturating)

vars == <<COMPONENTS, request, response, saved>>

----------------------------------------------------------------------------
\* Bounds of the model.

\* The longest components list of a posted schematic (API requests).
MaxComponents == 2
\* The most instances of a wired schematic.
MaxInstances == 2
\* The value at which the count of served saves saturates.
MaxSaved == 2

----------------------------------------------------------------------------
\* Values of the definitions: Python None, numbers and strings, tagged so
\* that values of different kinds can be compared.

None == [t |-> "null"]
Num(n) == [t |-> "num", v |-> n]
Str(s) == [t |-> "str", v |-> s]

----------------------------------------------------------------------------
\* The component definitions.  Characters outside ASCII are written by
\* their code point (icons) or transliterated (units: m3, degC).

\* tank: parameters (name -> value, unit, required, options)
tank_parameters ==
       "volume" :> [value |-> None, unit |-> "m3", required |-> TRUE]
    @@ "pressure_rating" :> [value |-> None, unit |-> "bar", required |-> TRUE]
    @@ "temperature_rating" :> [value |-> None, unit |-> "degC", required |-> TRUE]
    @@ "material" :> [value |-> Str("carbon_steel"), options |-> <<"carbon_steel", "stainless_steel", "plastic">>, required |-> TRUE]

\* The tank ports without the vent.
tank_connections_without_vent ==
       "inlet" :> [type |-> "pipe", direction |-> "in"]
    @@ "outlet" :> [type |-> "pipe", direction |-> "out"]

\* tank: ports (name -> type, direction)
tank_connections ==
       "inlet" :> [type |-> "pipe", direction |-> "in"]
    @@ "outlet" :> [type |-> "pipe", direction |-> "out"]
    @@ "vent" :> [type |-> "pipe", direction |-> "out"]

\* tank: constraint strings, character by character
tank_constraints ==
    <<
      \* volume > 0
      <<"v","o","l","u","m","e"," ",">"," ","0">>,
      \* pressure_rating > operating_pressure
      <<"p","r","e","s","s","u","r","e","_","r","a","t","i","n","g"," ",">"," ","o","p","e","r","a","t","i","n","g","_","p","r","e","s","s","u","r","e">>,
      \* temperature_rating > operating_temperature
      <<"t","e","m","p","e","r","a","t","u","r","e","_","r","a","t","i","n","g"," ",">"," ","o","p","e","r","a","t","i","n","g","_","t","e","m","p","e","r","a","t","u","r","e">>
    >>

tank ==
    [id |-> "tank", name |-> "Storage Tank", category |-> "vessel", icon |-> "U+2B1C",
     parameters |-> tank_parameters,
     connections |-> tank_connections,
     constraints |-> tank_constraints]

\* The control_valve parameters with a signal_range default written unlike
\* its option.
control_valve_parameters_stray_default ==
       "cv" :> [value |-> None, unit |-> "m3/h", required |-> TRUE]
    @@ "pressure_rating" :> [value |-> None, unit |-> "bar", required |-> TRUE]
    @@ "fail_action" :> [value |-> Str("fail_closed"), options |-> <<"fail_closed", "fail_open">>, required |-> TRUE]
    @@ "actuator_type" :> [value |-> Str("pneumatic"), options |-> <<"pneumatic", "electric", "hydraulic">>, required |-> TRUE]
    @@ "signal_range" :> [value |-> Str("4-20 mA"), options |-> <<"4-20mA", "0-10V", "3-15psi">>, required |-> TRUE]

\* control_valve: parameters (name -> value, unit, required, options)
control_valve_parameters ==
       "cv" :> [value |-> None, unit |-> "m3/h", required |-> TRUE]
    @@ "pressure_rating" :> [value |-> None, unit |-> "bar", required |-> TRUE]
    @@ "fail_action" :> [value |-> Str("fail_closed"), options |-> <<"fail_closed", "fail_open">>, required |-> TRUE]
    @@ "actuator_type" :> [value |-> Str("pneumatic"), options |-> <<"pneumatic", "electric", "hydraulic">>, required |-> TRUE]
    @@ "signal_range" :> [value |-> Str("4-20mA"), options |-> <<"4-20mA", "0-10V", "3-15psi">>, required |-> TRUE]

\* control_valve: ports (name -> type, direction)
control_valve_connections ==
       "inlet" :> [type |-> "pipe", direction |-> "in"]
    @@ "outlet" :> [type |-> "pipe", direction |-> "out"]
    @@ "control_signal" :> [type |-> "signal", direction |-> "in"]

\* control_valve: constraint strings, character by character
control_valve_constraints ==
    <<
      \* cv > 0
      <<"c","v"," ",">"," ","0">>,
      \* pressure_rating >= upstream_pressure
      <<"p","r","e","s","s","u","r","e","_","r","a","t","i","n","g"," ",">","="," ","u","p","s","t","r","e","a","m","_","p","r","e","s","s","u","r","e">>,
      \* actuator_type matches signal_type
      <<"a","c","t","u","a","t","o","r","_","t","y","p","e"," ","m","a","t","c","h","e","s"," ","s","i","g","n","a","l","_","t","y","p","e">>
    >>

control_valve ==
    [id |-> "control_valve", name |-> "Control Valve", category |-> "valve", icon |-> "U+25CA",
     parameters |-> control_valve_parameters,
     connections |-> control_valve_connections,
     constraints |-> control_valve_constraints]

\* pump: parameters (name -> value, unit, required, options)
pump_parameters ==
       "flow_rate" :> [value |-> None, unit |-> "m3/h", required |-> TRUE]
    @@ "head" :> [value |-> None, unit |-> "m", required |-> TRUE]
    @@ "power" :> [value |-> None, unit |-> "kW", required |-> TRUE]
    @@ "efficiency" :> [value |-> Num(75), unit |-> "%", required |-> FALSE]
    @@ "npsh_required" :> [value |-> None, unit |-> "m", required |-> TRUE]

\* pump: ports (name -> type, direction)
pump_connections ==
       "suction" :> [type |-> "pipe", direction |-> "in"]
    @@ "discharge" :> [type |-> "pipe", direction |-> "out"]
    @@ "power" :> [type |-> "electrical", direction |-> "in"]

\* pump: constraint strings, character by character
pump_constraints ==
    <<
      \* flow_rate > 0
      <<"f","l","o","w","_","r","a","t","e"," ",">"," ","0">>,
      \* head > 0
      <<"h","e","a","d"," ",">"," ","0">>,
      \* npsh_available > npsh_required
      <<"n","p","s","h","_","a","v","a","i","l","a","b","l","e"," ",">"," ","n","p","s","h","_","r","e","q","u","i","r","e","d">>
    >>

pump ==
    [id |-> "pump", name |-> "Centrifugal Pump", category |-> "rotating_equipment", icon |-> "U+2295",
     parameters |-> pump_parameters,
     connections |-> pump_connections,
     constraints |-> pump_constraints]

\* level_controller: parameters (name -> value, unit, required, options)
level_controller_parameters ==
       "measurement_range" :> [value |-> None, unit |-> "m", required |-> TRUE]
    @@ "control_mode" :> [value |-> Str("PI"), options |-> <<"P", "PI", "PID">>, required |-> TRUE]
    @@ "output_signal" :> [value |-> Str("4-20mA"), options |-> <<"4-20mA", "0-10V", "3-15psi">>, required |-> TRUE]
    @@ "setpoint" :> [value |-> None, unit |-> "m", required |-> TRUE]

\* level_controller: ports (name -> type, direction)
level_controller_connections ==
       "measurement" :> [type |-> "signal", direction |-> "in"]
    @@ "output" :> [type |-> "signal", direction |-> "out"]

\* level_controller: constraint strings, character by character
level_controller_constraints ==
    <<
      \* setpoint within measurement_range
      <<"s","e","t","p","o","i","n","t"," ","w","i","t","h","i","n"," ","m","e","a","s","u","r","e","m","e","n","t","_","r","a","n","g","e">>,
      \* output_signal compatible with actuator
      <<"o","u","t","p","u","t","_","s","i","g","n","a","l"," ","c","o","m","p","a","t","i","b","l","e"," ","w","i","t","h"," ","a","c","t","u","a","t","o","r">>
    >>

level_controller ==
    [id |-> "level_controller", name |-> "Level Controller", category |-> "instrument", icon |-> "LC",
     parameters |-> level_controller_parameters,
     connections |-> level_controller_connections,
     constraints |-> level_controller_constraints]

\* pipe: parameters (name -> value, unit, required, options)
pipe_parameters ==
       "diameter" :> [value |-> None, unit |-> "mm", required |-> TRUE]
    @@ "material" :> [value |-> Str("carbon_steel"), options |-> <<"carbon_steel", "stainless_steel", "pvc">>, required |-> TRUE]
    @@ "pressure_rating" :> [value |-> None, unit |-> "bar", required |-> TRUE]
    @@ "length" :> [value |-> None, unit |-> "m", required |-> FALSE]

\* pipe: ports (name -> type, direction)
pipe_connections ==
       "inlet" :> [type |-> "pipe", direction |-> "in"]
    @@ "outlet" :> [type |-> "pipe", direction |-> "out"]

\* The pipe constraints with the comparison written "=>".
pipe_constraints_arrow ==
    <<
      \* diameter > 0
      <<"d","i","a","m","e","t","e","r"," ",">"," ","0">>,
      \* pressure_rating => system_pressure
      <<"p","r","e","s","s","u","r","e","_","r","a","t","i","n","g"," ","=",">"," ","s","y","s","t","e","m","_","p","r","e","s","s","u","r","e">>
    >>

\* pipe: constraint strings, character by character
pipe_constraints ==
    <<
      \* diameter > 0
      <<"d","i","a","m","e","t","e","r"," ",">"," ","0">>,
      \* pressure_rating >= system_pressure
      <<"p","r","e","s","s","u","r","e","_","r","a","t","i","n","g"," ",">","="," ","s","y","s","t","e","m","_","p","r","e","s","s","u","r","e">>
    >>

pipe ==
    [id |-> "pipe", name |-> "Pipe", category |-> "piping", icon |-> "U+2500",
     parameters |-> pipe_parameters,
     connections |-> pipe_connections,
     constraints |-> pipe_constraints]

\* The characters of every parameter name (a dict key of the definitions).
Spelling ==
       "actuator_type" :> <<"a","c","t","u","a","t","o","r","_","t","y","p","e">>
    @@ "control_mode" :> <<"c","o","n","t","r","o","l","_","m","o","d","e">>
    @@ "cv" :> <<"c","v">>
    @@ "diameter" :> <<"d","i","a","m","e","t","e","r">>
    @@ "efficiency" :> <<"e","f","f","i","c","i","e","n","c","y">>
    @@ "fail_action" :> <<"f","a","i","l","_","a","c","t","i","o","n">>
    @@ "flow_rate" :> <<"f","l","o","w","_","r","a","t","e">>
    @@ "head" :> <<"h","e","a","d">>
    @@ "length" :> <<"l","e","n","g","t","h">>
    @@ "material" :> <<"m","a","t","e","r","i","a","l">>
    @@ "measurement_range" :> <<"m","e","a","s","u","r","e","m","e","n","t","_","r","a","n","g","e">>
    @@ "npsh_required" :> <<"n","p","s","h","_","r","e","q","u","i","r","e","d">>
    @@ "output_signal" :> <<"o","u","t","p","u","t","_","s","i","g","n","a","l">>
    @@ "power" :> <<"p","o","w","e","r">>
    @@ "pressure_rating" :> <<"p","r","e","s","s","u","r","e","_","r","a","t","i","n","g">>
    @@ "setpoint" :> <<"s","e","t","p","o","i","n","t">>
    @@ "signal_range" :> <<"s","i","g","n","a","l","_","r","a","n","g","e">>
    @@ "temperature_rating" :> <<"t","e","m","p","e","r","a","t","u","r","e","_","r","a","t","i","n","g">>
    @@ "volume" :> <<"v","o","l","u","m","e">>

\* The dictionary literal assigned to COMPONENTS.
ComponentDefinitions ==
       "tank" :> tank
    @@ "control_valve" :> control_valve
    @@ "pump" :> pump
    @@ "level_controller" :> level_controller
    @@ "pipe" :> pipe

----------------------------------------------------------------------------
\* Requests and responses.

NoRequest == [rule |-> "none"]
NoResponse == [status |-> 0]

\* jsonify(value): a 200 response carrying the value as JSON.
jsonify(value) == [status |-> 200, json |-> value]

\* The request for the list of component definitions.
ComponentsRequest == [rule |-> "/api/components", method |-> "GET"]

\* The answer of get_component to an id that is not a key.
NotFound == [jsonify([error |-> "Component not found"]) EXCEPT !.status = 404]

\* The answer of save_schematic.
SavedMessage ==
    jsonify([id |-> "temp_id", message |-> "Schematic saved successfully"])

\* A response is pending between the receipt of a request and its handler's
\* return.
Pending == request # NoRequest /\ response = NoResponse

\* Component ids asked for: the five keys and two that are not keys.
ComponentIds == DOMAIN ComponentDefinitions \cup {"reactor", "Tank"}

\* Schematic ids asked for.
SchematicIds == {"temp_id", "s1", "s2"}

\* Instance ids and type ids of posted components.
InstanceIds == {"a", "b"}
PostedTypeIds == {"tank", "pipe", "reactor"}

NoParameters == [n \in {} |-> None]

RECURSIVE SeqsUpTo(_, _)
SeqsUpTo(S, n) ==
    IF n = 0 THEN {<<>>}
    ELSE LET shorter == SeqsUpTo(S, n - 1)
         IN  shorter \cup {Append(q, x) : q \in shorter, x \in S}

\* Posted schematics: a components list and a connections collection, in
\* the shape of the placeholder schematic of get_schematic.
PostedComponents ==
    {[id |-> i, type |-> t, parameters |-> NoParameters] :
        i \in InstanceIds, t \in PostedTypeIds}

PostedComponentLists == SeqsUpTo(PostedComponents, MaxComponents)

\* A control_valve with an electric actuator whose control_signal port is
\* wired to the output port of a level_controller with a 3-15psi output.
ValveAndController ==
    [components |->
        <<[id |-> "lc", type |-> "level_controller",
           parameters |-> "measurement_range" :> Num(10) @@ "setpoint" :> Num(5)
                          @@ "output_signal" :> Str("3-15psi")],
          [id |-> "valve", type |-> "control_valve",
           parameters |-> "cv" :> Num(10) @@ "pressure_rating" :> Num(16)
                          @@ "actuator_type" :> Str("electric")]>>,
     connections |->
        {[from |-> [id |-> "lc", port |-> "output"],
          to |-> [id |-> "valve", port |-> "control_signal"]]}]

PostedSchematics ==
    {[components |-> cs, connections |-> {}] : cs \in PostedComponentLists}
    \cup {ValveAndController}

----------------------------------------------------------------------------
\* The initial state: the module is loaded, no request was received.

Init ==
    /\ COMPONENTS = ComponentDefinitions
    /\ request = NoRequest
    /\ response = NoResponse
    /\ saved = 0

\* A request arrives and is routed; the previous one, if any, was answered.
Receive(r) ==
    /\ ~Pending
    /\ request' = r
    /\ response' = NoResponse
    /\ UNCHANGED <<COMPONENTS, saved>>

\* GET /api/components
get_components ==
    /\ Pending
    /\ request.rule = "/api/components"
    /\ response' = jsonify(COMPONENTS)
    /\ UNCHANGED <<COMPONENTS, request, saved>>

\* The error body under the default status.
NotFoundWithoutStatus == jsonify([error |-> "Component not found"])

\* get_component answering an unknown id with the default status.
get_component_without_status(component_id) ==
    /\ Pending
    /\ request.rule = "/api/components/<component_id>"
    /\ request.component_id = component_id
    /\ response' =
          IF component_id \in DOMAIN COMPONENTS
          THEN jsonify(COMPONENTS[component_id])
          ELSE NotFoundWithoutStatus
    /\ UNCHANGED <<COMPONENTS, request, saved>>

\* GET /api/components/<component_id>
get_component(component_id) ==
    /\ Pending
    /\ request.rule = "/api/components/<component_id>"
    /\ request.component_id = component_id
    /\ response' =
          IF component_id \in DOMAIN COMPONENTS
          THEN jsonify(COMPONENTS[component_id])
          ELSE NotFound
    /\ UNCHANGED <<COMPONENTS, request, saved>>

\* save_schematic keeping the body in the module-level dictionary.
save_schematic_into_components(schematic_data) ==
    /\ Pending
    /\ request.rule = "/api/schematic"
    /\ request.json = schematic_data
    /\ response' = SavedMessage
    /\ saved' = IF saved < MaxSaved THEN saved + 1 ELSE saved
    /\ COMPONENTS' = ("temp_id" :> schematic_data) @@ COMPONENTS
    /\ UNCHANGED request

\* POST /api/schematic: the body is read and a fixed success message returned.
save_schematic(schematic_data) ==
    /\ Pending
    /\ request.rule = "/api/schematic"
    /\ request.json = schematic_data
    /\ response' = SavedMessage
    /\ saved' = IF saved < MaxSaved THEN saved + 1 ELSE saved
    /\ UNCHANGED <<COMPONENTS, request>>

\* The sample schematic under the id save_schematic hands out.
FixedSample ==
    jsonify([id |-> "temp_id", name |-> "Sample P&ID",
             components |-> <<>>, connections |-> <<>>])

\* get_schematic answering with the id save_schematic hands out.
get_schematic_fixed_id(schematic_id) ==
    /\ Pending
    /\ request.rule = "/api/schematic/<schematic_id>"
    /\ request.schematic_id = schematic_id
    /\ response' =
          FixedSample
    /\ UNCHANGED <<COMPONENTS, request, saved>>

\* GET /api/schematic/<schematic_id>
get_schematic(schematic_id) ==
    /\ Pending
    /\ request.rule = "/api/schematic/<schematic_id>"
    /\ request.schematic_id = schematic_id
    /\ response' =
          jsonify([id |-> schematic_id, name |-> "Sample P&ID",
                   components |-> <<>>, connections |-> <<>>])
    /\ UNCHANGED <<COMPONENTS, request, saved>>

\* The requests the routes match, one set per route with arguments.
ComponentRequests ==
    {[rule |-> "/api/components/<component_id>", method |-> "GET",
      component_id |-> c] : c \in ComponentIds}

SchematicPosts ==
    {[rule |-> "/api/schematic", json |-> p, method |-> "POST"] :
        p \in PostedSchematics}

SchematicRequests ==
    {[rule |-> "/api/schematic/<schematic_id>", method |-> "GET",
      schematic_id |-> s] : s \in SchematicIds}

Next ==
    \/ Receive(ComponentsRequest)
    \/ \E r \in ComponentRequests : Receive(r)
    \/ \E r \in SchematicPosts : Receive(r)
    \/ \E r \in SchematicRequests : Receive(r)
    \/ get_components
    \/ \E c \in ComponentIds : get_component(c)
    \/ save_schematic(request.json)
    \/ \E s \in SchematicIds : get_schematic(s)

Spec == Init /\ [][Next]_vars

----------------------------------------------------------------------------
\* Properties of the handlers.

\* The request was served: its handler has returned.
Responded == request # NoRequest /\ response # NoResponse

RespondedTo(rule) == Responded /\ request.rule = rule

\* The NotFound outcome: the error "Component not found" with status 404.
ExpectedNotFound == [status |-> 404, json |-> [error |-> "Component not found"]]

\* C1: get_component answers a key of the dictionary with exactly the entry
\* stored under it, whose own id is the requested one, and any other id with
\* the error "Component not found" and status 404.
C1_GetComponent ==
    RespondedTo("/api/components/<component_id>") =>
        IF request.component_id \in DOMAIN COMPONENTS
        THEN /\ response.status = 200
             /\ response.json = COMPONENTS[request.component_id]
             /\ response.json.id = request.component_id
        ELSE response = ExpectedNotFound

\* An id differing from a key only in case was answered NotFound.
C1_Witness ==
    /\ RespondedTo("/api/components/<component_id>")
    /\ request.component_id = "Tank"
    /\ response.status = 404

\* The ids of the five component types.
FiveTypeIds == {"tank", "control_valve", "pump", "level_controller", "pipe"}

\* The list of the five definitions as loaded.
ExpectedListing == [status |-> 200, json |-> ComponentDefinitions]

\* C2: whatever requests were served, the dictionary holds exactly the five
\* definitions it was loaded with, and get_components answers with them.
C2_CatalogReadOnly ==
    /\ DOMAIN COMPONENTS = FiveTypeIds
    /\ COMPONENTS = ComponentDefinitions
    /\ RespondedTo("/api/components") => response = ExpectedListing

\* The definitions were listed after at least two schematics were posted.
C2_Witness ==
    /\ saved >= 2
    /\ RespondedTo("/api/components")
    /\ response.json = ComponentDefinitions

\* A posted schematic names a type that is not in the dictionary.
HasUnknownType(schematic_data) ==
    \E i \in DOMAIN schematic_data.components :
        schematic_data.components[i].type \notin DOMAIN COMPONENTS

\* A posted schematic holds two components with the same instance id.
HasDuplicateId(schematic_data) ==
    \E i, j \in DOMAIN schematic_data.components :
        i # j /\ schematic_data.components[i].id = schematic_data.components[j].id

\* C3: a posted schematic with an unknown type id or a duplicate instance id
\* is answered with an error, not with success.
C3_RejectsMalformed ==
    (/\ RespondedTo("/api/schematic")
     /\ HasUnknownType(request.json) \/ HasDuplicateId(request.json))
        => response.status # 200

\* The success outcome of a save: the message and the id "temp_id".
ExpectedSaved ==
    [status |-> 200,
     json |-> [id |-> "temp_id", message |-> "Schematic saved successfully"]]

\* C10: save_schematic answers every body with the success message and the
\* id "temp_id"; get_schematic answers every id s with the schematic of id s,
\* name "Sample P&ID" and no components or connections, whatever was served
\* before.
C10_NothingRetained ==
    /\ RespondedTo("/api/schematic") =>
          response = ExpectedSaved
    /\ RespondedTo("/api/schematic/<schematic_id>") =>
          response = [status |-> 200,
                      json |-> [id |-> request.schematic_id, name |-> "Sample P&ID",
                                components |-> <<>>, connections |-> <<>>]]

\* After a save, the schematic of another id than the one handed out was
\* asked for and came back empty under that id.
C10_Witness ==
    /\ saved >= 1
    /\ RespondedTo("/api/schematic/<schematic_id>")
    /\ request.schematic_id = "s1"
    /\ response.json.id = "s1"
    /\ response.json.components = <<>>

----------------------------------------------------------------------------
\* The constraint grammar:
\*   expr    := operand op operand | operand "matches" operand
\*            | operand "compatible with" operand | operand "within" operand
\*   op      := > | >= | < | <= | == | !=
\*   operand := number | identifier | identifier "." identifier

Letter ==
    {"a", "b", "c", "d", "e", "f", "g", "h", "i", "j", "k", "l", "m",
     "n", "o", "p", "q", "r", "s", "t", "u", "v", "w", "x", "y", "z",
     "A", "B", "C", "D", "E", "F", "G", "H", "I", "J", "K", "L", "M",
     "N", "O", "P", "Q", "R", "S", "T", "U", "V", "W", "X", "Y", "Z",
     "_"}

Digit == {"0", "1", "2", "3", "4", "5", "6", "7", "8", "9"}

OpChar == {">", "<", "=", "!"}

ComparisonOps == {<<">">>, <<">", "=">>, <<"<">>, <<"<", "=">>, <<"=", "=">>, <<"!", "=">>}

KwMatches == <<"m","a","t","c","h","e","s">>
KwCompatible == <<"c","o","m","p","a","t","i","b","l","e">>
KwWith == <<"w","i","t","h">>
KwWithin == <<"w","i","t","h","i","n">>

SyntaxError == [kind |-> "SyntaxError"]
DotToken == [kind |-> "dot", text |-> <<".">>]

\* The last index of the longest run of characters of S that starts at i
\* (i - 1 when s[i] is not in S).
RECURSIVE RunEnd(_, _, _)
RunEnd(s, i, S) ==
    IF i <= Len(s) /\ s[i] \in S THEN RunEnd(s, i + 1, S) ELSE i - 1

\* The tokens of s from index i on: identifiers, numbers, operator runs and
\* dots; blanks separate tokens, any other character is a bad token.
RECURSIVE Lex(_, _)
Lex(s, i) ==
    IF i > Len(s) THEN <<>>
    ELSE IF s[i] = " " THEN Lex(s, i + 1)
    ELSE IF s[i] \in Letter THEN
        LET j == RunEnd(s, i, Letter \cup Digit)
        IN  <<[kind |-> "identifier", text |-> SubSeq(s, i, j)]>> \o Lex(s, j + 1)
    ELSE IF s[i] \in Digit THEN
        LET j == RunEnd(s, i, Digit)
            k == IF j + 2 <= Len(s) /\ s[j + 1] = "." /\ s[j + 2] \in Digit
                 THEN RunEnd(s, j + 2, Digit)
                 ELSE j
        IN  <<[kind |-> "number", text |-> SubSeq(s, i, k)]>> \o Lex(s, k + 1)
    ELSE IF s[i] \in OpChar THEN
        LET j == RunEnd(s, i, OpChar)
        IN  <<[kind |-> "op", text |-> SubSeq(s, i, j)]>> \o Lex(s, j + 1)
    ELSE IF s[i] = "." THEN
        <<DotToken>> \o Lex(s, i + 1)
    ELSE <<[kind |-> "bad", text |-> <<s[i]>>]>> \o Lex(s, i + 1)

\* How many tokens the operand starting at token p takes: 0 when there is
\* none.
OperandLen(t, p) ==
    IF p > Len(t) THEN 0
    ELSE IF t[p].kind = "number" THEN 1
    ELSE IF t[p].kind = "identifier" THEN
        IF p + 2 <= Len(t) /\ t[p + 1].kind = "dot" /\ t[p + 2].kind = "identifier"
        THEN 3
        ELSE 1
    ELSE 0

\* The operand starting at token p (OperandLen(t, p) > 0).
Operand(t, p) ==
    IF t[p].kind = "number" THEN [kind |-> "number", text |-> t[p].text]
    ELSE IF OperandLen(t, p) = 3
    THEN [kind |-> "qualified", scope |-> t[p].text, text |-> t[p + 2].text]
    ELSE [kind |-> "name", text |-> t[p].text]

\* How many tokens the operator or predicate word starting at token p
\* takes: 0 when there is none.
ConnectiveLen(t, p) ==
    IF p > Len(t) THEN 0
    ELSE IF t[p].kind = "op" THEN (IF t[p].text \in ComparisonOps THEN 1 ELSE 0)
    ELSE IF t[p].kind # "identifier" THEN 0
    ELSE IF t[p].text \in {KwMatches, KwWithin} THEN 1
    ELSE IF /\ t[p].text = KwCompatible
            /\ p + 1 <= Len(t)
            /\ t[p + 1].kind = "identifier"
            /\ t[p + 1].text = KwWith
    THEN 2
    ELSE 0

\* parse(expression): the tree of the expression, or SyntaxError.
Parse(s) ==
    LET t  == Lex(s, 1)
        l1 == OperandLen(t, 1)
        c  == ConnectiveLen(t, 1 + l1)
        l2 == OperandLen(t, 1 + l1 + c)
    IN  IF l1 > 0 /\ c > 0 /\ l2 > 0 /\ l1 + c + l2 = Len(t)
        THEN [kind  |-> IF t[1 + l1].kind = "op" THEN "Comparison" ELSE "Predicate",
              op    |-> t[1 + l1].text,
              left  |-> Operand(t, 1),
              right |-> Operand(t, 1 + l1 + c)]
        ELSE SyntaxError

\* Every constraint string of the definitions d.
ConstraintStrings(d) ==
    UNION {{d[c].constraints[i] : i \in DOMAIN d[c].constraints} : c \in DOMAIN d}

----------------------------------------------------------------------------
\* Properties of the component definitions.

\* C7: every constraint string of the five definitions is an expression of
\* the constraint grammar: parsing none of them gives a SyntaxError.
C7_ConstraintsParse ==
    \A s \in ConstraintStrings(COMPONENTS) : Parse(s).kind # "SyntaxError"

\* The definitions were listed, and among their constraints the one with the
\* two-word predicate "compatible with" parsed as a predicate over two names.
C7_Witness ==
    /\ RespondedTo("/api/components")
    /\ \E s \in ConstraintStrings(response.json) :
          /\ Parse(s).kind = "Predicate"
          /\ Parse(s).op = KwCompatible
          /\ Parse(s).left.kind = "name"
          /\ Parse(s).right.kind = "name"

ConnectionTypes == {"pipe", "signal", "electrical"}
Directions == {"in", "out"}

\* C8: every parameter that declares options has a default that is not None
\* and is one of its options; every port has a connection type among pipe,
\* signal and electrical and a direction among in and out.
C8_DefaultsAndPorts ==
    \A c \in DOMAIN COMPONENTS :
        /\ \A n \in DOMAIN COMPONENTS[c].parameters :
              LET param == COMPONENTS[c].parameters[n]
              IN  "options" \in DOMAIN param =>
                     /\ param.value # None
                     /\ param.value.t = "str"
                     /\ \E i \in DOMAIN param.options : param.options[i] = param.value.v
        /\ \A n \in DOMAIN COMPONENTS[c].connections :
              /\ COMPONENTS[c].connections[n].type \in ConnectionTypes
              /\ COMPONENTS[c].connections[n].direction \in Directions

\* A definition with option-valued parameters and ports of either direction
\* was fetched: its control_mode defaults to "PI", the second of its options.
C8_Witness ==
    /\ RespondedTo("/api/components/<component_id>")
    /\ request.component_id = "level_controller"
    /\ response.status = 200
    /\ response.json.parameters["control_mode"].value = Str("PI")
    /\ response.json.parameters["control_mode"].options[2] = "PI"
    /\ response.json.connections["output"].direction = "out"

----------------------------------------------------------------------------
\* Wired schematics: instances of the five types, every required parameter
\* assigned, and each out port connected to one in port or to none.

\* The instance ids of a wired schematic, by position in its components list.
WiredIds == <<"c1", "c2", "c3", "c4">>

TypeLists ==
    {q \in SeqsUpTo(DOMAIN ComponentDefinitions, MaxInstances) : Len(q) >= 1}

\* The ports of direction dir that the instances of the listed types declare.
PortsOf(types, dir) ==
    UNION {{[id |-> WiredIds[i], port |-> n] :
               n \in {m \in DOMAIN ComponentDefinitions[types[i]].connections :
                         ComponentDefinitions[types[i]].connections[m].direction = dir}} :
           i \in DOMAIN types}

NotWired == [id |-> "", port |-> ""]

\* An assignment to every required parameter of a type: its default where
\* the definition gives one, the number 1 where it gives None.
FilledParameters(type) ==
    LET params == ComponentDefinitions[type].parameters
    IN  [n \in {m \in DOMAIN params : params[m].required} |->
            IF params[n].value # None THEN params[n].value ELSE Num(1)]

WiredSchematic(types, wiring) ==
    [components |->
        [i \in DOMAIN types |->
            [id |-> WiredIds[i], type |-> types[i],
             parameters |-> FilledParameters(types[i])]],
     connections |->
        {[from |-> o, to |-> wiring[o]] :
            o \in {x \in DOMAIN wiring : wiring[x] # NotWired}}]

\* A wired schematic was posted and is about to be served.
InitWiring ==
    /\ COMPONENTS = ComponentDefinitions
    /\ \E types \in TypeLists :
          \E w \in [PortsOf(types, "out") -> PortsOf(types, "in") \cup {NotWired}] :
              request = [method |-> "POST", rule |-> "/api/schematic",
                         json |-> WiredSchematic(types, w)]
    /\ response = NoResponse
    /\ saved = 0

NextWiring == save_schematic(request.json)

SpecWiring == InitWiring /\ [][NextWiring]_vars

----------------------------------------------------------------------------
\* Connectivity of a posted schematic.

HasInstance(s, id) == \E i \in DOMAIN s.components : s.components[i].id = id

\* The component with the given instance id.
Instance(s, id) ==
    s.components[CHOOSE i \in DOMAIN s.components : s.components[i].id = id]

\* The endpoint names a declared port of an instance of the schematic.
IsPort(s, e) ==
    /\ HasInstance(s, e.id)
    /\ Instance(s, e.id).type \in DOMAIN COMPONENTS
    /\ e.port \in DOMAIN COMPONENTS[Instance(s, e.id).type].connections

PortSpec(s, e) == COMPONENTS[Instance(s, e.id).type].connections[e.port]

\* Known types, distinct instance ids, every connection from an out port to
\* an in port of the same connection type, every port on at most one
\* connection.
WellWired(s) ==
    /\ ~HasUnknownType(s)
    /\ ~HasDuplicateId(s)
    /\ \A c \in s.connections :
          /\ IsPort(s, c.from)
          /\ IsPort(s, c.to)
          /\ PortSpec(s, c.from).direction = "out"
          /\ PortSpec(s, c.to).direction = "in"
          /\ PortSpec(s, c.from).type = PortSpec(s, c.to).type
    /\ \A c, d \in s.connections :
          c # d => {c.from, c.to} \cap {d.from, d.to} = {}

DeclaredPorts(s) ==
    UNION {{[id |-> s.components[i].id, port |-> n] :
               n \in DOMAIN COMPONENTS[s.components[i].type].connections} :
           i \in DOMAIN s.components}

ConnectedPorts(s) == UNION {{c.from, c.to} : c \in s.connections}

\* The declared ports no connection reaches: one MissingConnection each.
UnconnectedPorts(s) == DeclaredPorts(s) \ ConnectedPorts(s)

HasInstanceOf(s, types) ==
    \E i \in DOMAIN s.components : s.components[i].type \in types

\* The types the claim is about, and the one open port of the ring below.
OpenEndedTypes == {"tank", "pump", "control_valve"}
OnlyTheVent == {[id |-> "c1", port |-> "vent"]}

\* C9: in a schematic whose connections each pair an out port with an in
\* port of the same connection type, no port on two connections, a tank, a
\* pump or a control_valve leaves at least one declared port unconnected.
C9_PortLeftOpen ==
    (/\ RespondedTo("/api/schematic")
     /\ WellWired(request.json)
     /\ HasInstanceOf(request.json, OpenEndedTypes))
        => UnconnectedPorts(request.json) # {}

\* A tank and a pipe in a ring: every port is connected but the tank's vent.
C9_Witness ==
    /\ RespondedTo("/api/schematic")
    /\ WellWired(request.json)
    /\ HasInstanceOf(request.json, {"tank"})
    /\ HasInstanceOf(request.json, {"pipe"})
    /\ UnconnectedPorts(request.json) = OnlyTheVent

----------------------------------------------------------------------------
\* Resolution of the variables of a constraint, and its verdict.

DerivedNames ==
    {<<"o","p","e","r","a","t","i","n","g","_","p","r","e","s","s","u","r","e">>,
     <<"o","p","e","r","a","t","i","n","g","_","t","e","m","p","e","r","a","t","u","r","e">>,
     <<"s","y","s","t","e","m","_","p","r","e","s","s","u","r","e">>,
     <<"u","p","s","t","r","e","a","m","_","p","r","e","s","s","u","r","e">>,
     <<"n","p","s","h","_","a","v","a","i","l","a","b","l","e">>}

KwUpstream == <<"u","p","s","t","r","e","a","m">>
KwDownstream == <<"d","o","w","n","s","t","r","e","a","m">>

\* The characters of the parameter names of component type c.
ParameterNames(c) == {Spelling[n] : n \in DOMAIN COMPONENTS[c].parameters}

\* The rule that resolves operand o of a constraint of component type c:
\* its own parameter first, then a known derived name, then a qualified
\* upstream/downstream reference; "none" when no rule applies.
ResolverRule(c, o) ==
    IF o.kind = "number" THEN "literal"
    ELSE IF o.kind = "name" /\ o.text \in ParameterNames(c) THEN "parameter"
    ELSE IF o.kind = "name" /\ o.text \in DerivedNames THEN "derived"
    ELSE IF o.kind = "qualified" /\ o.scope \in {KwUpstream, KwDownstream} THEN "qualified"
    ELSE "none"

\* The value of the parameter spelled text on an instance: the assigned
\* value, else the default of its type.
ParameterValue(inst, text) ==
    LET n == CHOOSE m \in DOMAIN COMPONENTS[inst.type].parameters : Spelling[m] = text
    IN  IF n \in DOMAIN inst.parameters
        THEN inst.parameters[n]
        ELSE COMPONENTS[inst.type].parameters[n].value

\* The connection types the neighbor walk follows.
WalkedTypes == {"pipe", "signal"}

\* The instances feeding an in port (pipe or signal) of the instance.
Upstream(s, id) ==
    {c.from.id : c \in {d \in s.connections :
                           /\ d.to.id = id
                           /\ IsPort(s, d.to)
                           /\ PortSpec(s, d.to).direction = "in"
                           /\ PortSpec(s, d.to).type \in WalkedTypes
                           /\ HasInstance(s, d.from.id)}}

\* The instances fed by an out port of the instance.
Downstream(s, id) ==
    {c.to.id : c \in {d \in s.connections :
                         /\ d.from.id = id
                         /\ IsPort(s, d.from)
                         /\ PortSpec(s, d.from).direction = "out"
                         /\ HasInstance(s, d.to.id)}}

\* Whether operand o resolves to a value for the instance.  A derived name
\* resolves when an upstream neighbor exists (which of the neighbor's
\* parameters it reads is left open, so the neighbor is taken to have it).
Resolves(s, inst, o) ==
    LET rule == ResolverRule(inst.type, o)
    IN  IF rule = "literal" THEN TRUE
        ELSE IF rule = "parameter" THEN ParameterValue(inst, o.text) # None
        ELSE IF rule = "derived" THEN Upstream(s, inst.id) # {}
        ELSE IF rule = "qualified" THEN
            \E id \in (IF o.scope = KwUpstream
                       THEN Upstream(s, inst.id)
                       ELSE Downstream(s, inst.id)) :
                /\ Instance(s, id).type \in DOMAIN COMPONENTS
                /\ o.text \in ParameterNames(Instance(s, id).type)
                /\ ParameterValue(Instance(s, id), o.text) # None
        ELSE FALSE

Unresolvable == {"Unresolvable"}
PassOrFail == {"Pass", "Fail"}
OnlyFail == {"Fail"}

\* The verdicts a constraint of the instance can get: Unresolvable when an
\* operand does not resolve; else Pass or Fail, by the values compared.
Verdicts(s, inst, expr) ==
    IF ~Resolves(s, inst, expr.left) \/ ~Resolves(s, inst, expr.right)
    THEN Unresolvable
    ELSE PassOrFail

\* Every required parameter of the instance has a value.
RequiredAssigned(inst) ==
    \A n \in DOMAIN COMPONENTS[inst.type].parameters :
        COMPONENTS[inst.type].parameters[n].required =>
            ParameterValue(inst, Spelling[n]) # None

\* Every declared port of the instance is on a connection.
FullyConnected(s, inst) ==
    \A e \in UnconnectedPorts(s) : e.id # inst.id

\* C5: a constraint of an instance with every required parameter assigned
\* and every port connected is never Unresolvable.
C5_NoUnresolvable ==
    (RespondedTo("/api/schematic") /\ WellWired(request.json)) =>
        \A i \in DOMAIN request.json.components :
            LET inst == request.json.components[i]
            IN  (RequiredAssigned(inst) /\ FullyConnected(request.json, inst)) =>
                    \A k \in DOMAIN COMPONENTS[inst.type].constraints :
                        "Unresolvable" \notin
                            Verdicts(request.json, inst,
                                     Parse(COMPONENTS[inst.type].constraints[k]))

\* The schematic holds a control_valve with an electric actuator whose
\* control_signal port is fed by the output port of a level_controller with
\* a 3-15psi output.
ScenarioValves(s) ==
    {i \in DOMAIN s.components :
        /\ s.components[i].type = "control_valve"
        /\ ParameterValue(s.components[i], Spelling["actuator_type"]) = Str("electric")
        /\ \E j \in DOMAIN s.components :
              /\ s.components[j].type = "level_controller"
              /\ ParameterValue(s.components[j], Spelling["output_signal"]) = Str("3-15psi")
              /\ [from |-> [id |-> s.components[j].id, port |-> "output"],
                  to |-> [id |-> s.components[i].id, port |-> "control_signal"]]
                     \in s.connections}

\* C6: for such a control_valve the constraint
\* "actuator_type matches signal_type" gets the verdict Fail.
C6_ScenarioFails ==
    (RespondedTo("/api/schematic") /\ WellWired(request.json)) =>
        \A i \in ScenarioValves(request.json) :
            \A k \in DOMAIN COMPONENTS["control_valve"].constraints :
                COMPONENTS["control_valve"].constraints[k] = 
                    <<"a","c","t","u","a","t","o","r","_","t","y","p","e"," ","m","a","t","c","h","e","s"," ","s","i","g","n","a","l","_","t","y","p","e">>
                   
                    => Verdicts(request.json, request.json.components[i],
                                Parse(COMPONENTS["control_valve"].constraints[k]))
                          = OnlyFail

====
